---- MODULE Spec2Model ----
(***************************************************************************)
(* Model of src/python/coral_realistic_growth.py: the coral growth         *)
(* automaton.  A run owns a square occupancy grid, a list of tips and the  *)
(* history of occupied cells; each loop iteration picks a tip, collects    *)
(* its admissible neighbour cells, marks one of them, then applies the     *)
(* branch and death draws.                                                  *)
(*                                                                         *)
(* Random draws are inputs: the tip index, the weighted choice among the   *)
(* candidates, the branch coin, the death coin and the death index are     *)
(* chosen with \E.  A coin rng.random() < rate is modelled in halves: the  *)
(* draw u ranges over Draws = {0, 1} (0.0 and 0.5) and the rate over       *)
(* Rates = {0, 1, 2} (0.0, 0.5 and 1.0), so a coin with rate 0 never       *)
(* fires, one with rate 1.0 always fires and one in between may do either. *)
(* The scores and the                                                       *)
(* softmax only weight the choice among the candidates; every candidate    *)
(* has a positive weight exp(.), so the choice ranges over all of them.    *)
(***************************************************************************)
EXTENDS Integers, Sequences, FiniteSets, TLC

VARIABLES
    cfg,      \* the parameters of the call (lines 6-22)
    grid,     \* the occupancy array (line 24), indexed <<y, x>>
    tips,     \* the list of tips (line 38), cells <<x, y>>
    history,  \* the list of occupied cells in occupation order (line 39)
    it,       \* the number of loop iterations that went past the check of line 57
    i,        \* the tip index drawn at line 60; -1 before the first draw
    pc        \* "loop" while the for loop runs, "done" once History is returned

vars == <<cfg, grid, tips, history, it, i, pc>>

(***************************************************************************)
(* Bounds of the model.                                                    *)
(***************************************************************************)
MaxSteps == 2
MaxGrid == 6

(***************************************************************************)
(* Defaults of the function's parameters.                                  *)
(***************************************************************************)
DefaultMinDist == 2
DefaultCrowdingMax == 4
DefaultTemperature == 2
DefaultMaxTips == 5000

Min2(a, b) == IF a < b THEN a ELSE b
Max2(a, b) == IF a > b THEN a ELSE b

(* Variant of moves with a mistyped offset: (0, -2) for (0, -1). *)
moves_Mistyped == << <<1, 0>>, <<-1, 0>>, <<0, 1>>, <<0, -2>>,
                     <<1, 1>>, <<1, -1>>, <<-1, 1>>, <<-1, -1>> >>

(***************************************************************************)
(* The eight compass and diagonal offsets, in the order the code tries     *)
(* them.                                                                   *)
(***************************************************************************)
moves == << <<1, 0>>, <<-1, 0>>, <<0, 1>>, <<0, -1>>,
            <<1, 1>>, <<1, -1>>, <<-1, 1>>, <<-1, -1>> >>

(***************************************************************************)
(* Seed position: cx = grid_size // 2, cy = int(grid_size * 0.85).         *)
(* int() truncates; for grid_size >= 0 the floating-point product         *)
(* truncates to floor(85 * grid_size / 100) (compared for 0..2000).         *)
(***************************************************************************)
SeedX(c) == c.grid_size \div 2
SeedY(c) == (c.grid_size * 85) \div 100
SeedCell(c) == <<SeedX(c), SeedY(c)>>

(***************************************************************************)
(* np.zeros((grid_size, grid_size)) with grid[cy, cx] = 1.  The grid is    *)
(* indexed <<row, column>> = <<y, x>> as in the code.                      *)
(***************************************************************************)
Index(c) == 0 .. (c.grid_size - 1)
(* Variant of InitGrid with the seed indices exchanged: grid[cx, cy] = 1. *)
InitGrid_Transposed(c) ==
    [rc \in Index(c) \X Index(c) |->
        IF rc = <<SeedX(c), SeedY(c)>> THEN 1 ELSE 0]

InitGrid(c) ==
    [rc \in Index(c) \X Index(c) |->
        IF rc = <<SeedY(c), SeedX(c)>> THEN 1 ELSE 0]

(* Variant of in_bounds with non-strict comparisons (a margin off by one). *)
in_bounds_Inclusive(c, x, y) ==
    /\ c.min_dist <= x
    /\ x <= c.grid_size - c.min_dist
    /\ c.min_dist <= y
    /\ y <= c.grid_size - c.min_dist

in_bounds(c, x, y) ==
    /\ c.min_dist < x
    /\ x < c.grid_size - c.min_dist
    /\ c.min_dist < y
    /\ y < c.grid_size - c.min_dist

(***************************************************************************)
(* Bounds <<first, last>> of the indices selected by the slice lo:hi of an *)
(* axis of length n: a negative bound counts from the end, and both bounds *)
(* are clipped to 0..n.                                                    *)
(***************************************************************************)
SliceIdx(lo, hi, n) ==
    LET l == IF lo < 0 THEN Max2(lo + n, 0) ELSE Min2(lo, n)
        h == IF hi < 0 THEN Max2(hi + n, 0) ELSE Min2(hi, n)
    IN  <<l, h - 1>>

RECURSIVE SumRow(_, _, _, _)
SumRow(g, r, col, last) ==
    IF col > last THEN 0 ELSE g[<<r, col>>] + SumRow(g, r, col + 1, last)

RECURSIVE SumBlock(_, _, _, _)
SumBlock(g, r, lastRow, cols) ==
    IF r > lastRow THEN 0
    ELSE SumRow(g, r, cols[1], cols[2]) + SumBlock(g, r + 1, lastRow, cols)

(***************************************************************************)
(* block = grid[ny-d:ny+d+1, nx-d:nx+d+1]; occ = int(block.sum()).         *)
(***************************************************************************)
Occ(c, g, nx, ny) ==
    LET d == c.min_dist
        rows == SliceIdx(ny - d, ny + d + 1, c.grid_size)
        cols == SliceIdx(nx - d, nx + d + 1, c.grid_size)
    IN  SumBlock(g, rows[1], rows[2], cols)

(* Variant of too_crowded that rejects at the limit itself (>= for >). *)
too_crowded_AtLimit(c, g, nx, ny) == Occ(c, g, nx, ny) >= c.crowding_max

too_crowded(c, g, nx, ny) == Occ(c, g, nx, ny) > c.crowding_max

(* Variant of Admitted that omits the occupancy test of line 70. *)
Admitted_NoOccupancyTest(c, g, nx, ny) ==
    /\ in_bounds(c, nx, ny)
    /\ ~too_crowded(c, g, nx, ny)

(***************************************************************************)
(* The three tests of the candidate loop, in the code's order.             *)
(***************************************************************************)
Admitted(c, g, nx, ny) ==
    /\ in_bounds(c, nx, ny)
    /\ g[<<ny, nx>>] # 1
    /\ ~too_crowded(c, g, nx, ny)

(***************************************************************************)
(* The candidates list built for the tip at (x, y), in move order.         *)
(***************************************************************************)
Candidates(c, g, x, y) ==
    LET tgt == [k \in 1..Len(moves) |-> <<x + moves[k][1], y + moves[k][2]>>]
    IN  SelectSeq(tgt, LAMBDA t : Admitted(c, g, t[1], t[2]))

(* Variant of Mark with the two indices exchanged: grid[nx, ny] = 1. *)
Mark_Transposed(g, cell) == [g EXCEPT ![<<cell[1], cell[2]>>] = 1]

(***************************************************************************)
(* grid[ny, nx] = 1 for the cell (nx, ny) (line 104).                      *)
(***************************************************************************)
Mark(g, cell) == [g EXCEPT ![<<cell[2], cell[1]>>] = 1]

(* Variant of Pop that ignores the index: list.pop() removes the last item. *)
Pop_Last(s, k) == [j \in 1..(Len(s) - 1) |-> s[j]]

(***************************************************************************)
(* list.pop(k) with a 0-based index k.                                     *)
(***************************************************************************)
Pop(s, k) == [j \in 1..(Len(s) - 1) |-> IF j <= k THEN s[j] ELSE s[j + 1]]

(***************************************************************************)
(* rng.random() < rate, both in halves.                                    *)
(***************************************************************************)
Coin(u, rate) == u < rate

(* Variant of BranchOrAdvance that omits the len(tips) < max_tips test. *)
BranchOrAdvance_NoCap(c, ts, k, cell, ub) ==
    IF Coin(ub, c.branch_rate)
    THEN Append(ts, cell)
    ELSE [ts EXCEPT ![k + 1] = cell]

(* Variant of BranchOrAdvance in which a branch also moves tip k. *)
BranchOrAdvance_MovesToo(c, ts, k, cell, ub) ==
    IF Coin(ub, c.branch_rate) /\ Len(ts) < c.max_tips
    THEN Append([ts EXCEPT ![k + 1] = cell], cell)
    ELSE [ts EXCEPT ![k + 1] = cell]

(* Variant of BranchOrAdvance with the cap comparison reversed. *)
BranchOrAdvance_CapReversed(c, ts, k, cell, ub) ==
    IF Coin(ub, c.branch_rate) /\ Len(ts) > c.max_tips
    THEN Append(ts, cell)
    ELSE [ts EXCEPT ![k + 1] = cell]

(***************************************************************************)
(* Branch or advance (lines 107-110).                                      *)
(***************************************************************************)
BranchOrAdvance(c, ts, k, cell, ub) ==
    IF Coin(ub, c.branch_rate) /\ Len(ts) < c.max_tips
    THEN Append(ts, cell)
    ELSE [ts EXCEPT ![k + 1] = cell]

(* Variant of DeathFires that omits the len(tips) > 1 test. *)
DeathFires_Unguarded(c, ts, ud) == Coin(ud, c.death_rate)

(***************************************************************************)
(* The death test (line 112).                                              *)
(***************************************************************************)
DeathFires(c, ts, ud) == Coin(ud, c.death_rate) /\ Len(ts) > 1

(* Variant of LoopCond that runs one iteration too many. *)
LoopCond_OffByOne(c, n) == n <= c.n_steps

(***************************************************************************)
(* for _ in range(n_steps): another iteration is due.                      *)
(***************************************************************************)
LoopCond(c, n) == n < c.n_steps

(***************************************************************************)
(* Configurations.  A configuration holds the parameters that decide which *)
(* states are reachable; the weights, directions and seed only weight the  *)
(* random choice.                                                           *)
(***************************************************************************)
Rates == {0, 1, 2}
Draws == {0, 1}
LongSteps == 4 * MaxSteps + 2

Config(n, g, d, cm, br, dr, mt, t) ==
    [n_steps |-> n, grid_size |-> g, min_dist |-> d, crowding_max |-> cm,
     branch_rate |-> br, death_rate |-> dr, max_tips |-> mt, temperature |-> t]

GeneralConfigs ==
    { Config(n, g, d, cm, br, dr, mt, DefaultTemperature) :
        n \in 0..MaxSteps, g \in 5..MaxGrid, d \in 1..DefaultMinDist,
        cm \in {0, DefaultCrowdingMax, 8}, br \in Rates, dr \in Rates,
        mt \in {1, 2, DefaultMaxTips} }

(* Configurations outside the documented constraints. *)
OddConfigs ==
    { Config(n, 5, d, cm, 0, 0, 1, t) :
        n \in {-1, 1}, d \in 1..DefaultMinDist,
        cm \in {-1, DefaultCrowdingMax}, t \in {-1, 0, DefaultTemperature} }

(* Long single-tip runs with the crowding limit at 8. *)
LongConfigs ==
    { Config(LongSteps, g, d, 8, 0, 0, 1, DefaultTemperature) :
        g \in {5, 6, 8}, d \in 1..DefaultMinDist } \
    { Config(LongSteps, 8, 1, 8, 0, 0, 1, DefaultTemperature) }

(* Long branching runs on the smallest grid with a free cell. *)
DeepConfigs ==
    { Config(n, 5, 1, cm, br, dr, mt, DefaultTemperature) :
        n \in {2 * MaxSteps + 1, LongSteps},
        cm \in {DefaultCrowdingMax, 8}, br \in Rates, dr \in Rates,
        mt \in {1, 2, DefaultMaxTips} }

Configs == GeneralConfigs \cup OddConfigs \cup LongConfigs \cup DeepConfigs

(***************************************************************************)
(* State after lines 23-41.  i is unbound before the first iteration (-1). *)
(***************************************************************************)
Init ==
    /\ cfg \in Configs
    /\ grid = InitGrid(cfg)
    /\ tips = <<SeedCell(cfg)>>
    /\ history = <<SeedCell(cfg)>>
    /\ it = 0
    /\ i = -1
    /\ pc = "loop"

(* Variant of Break without the emptiness check of lines 57-58: the draw   *)
(* rng.integers(0, 0) of line 60 then raises and the call ends in an error. *)
Break_Unchecked ==
    /\ pc = "loop"
    /\ LoopCond(cfg, it)
    /\ tips = <<>>
    /\ pc' = "raised"
    /\ UNCHANGED <<cfg, grid, tips, history, it, i>>

(***************************************************************************)
(* Lines 57-58 and 115: the tip set is empty, break and return.            *)
(***************************************************************************)
Break ==
    /\ pc = "loop"
    /\ LoopCond(cfg, it)
    /\ tips = <<>>
    /\ pc' = "done"
    /\ UNCHANGED <<cfg, grid, tips, history, it, i>>

(* Variant of TipDies that omits the continue of line 95: control falls    *)
(* into the sampler with an empty score list and s.max() raises.           *)
TipDies_FallsThrough ==
    /\ pc = "loop"
    /\ LoopCond(cfg, it)
    /\ tips # <<>>
    /\ \E k \in 0..(Len(tips) - 1) :
         /\ Candidates(cfg, grid, tips[k + 1][1], tips[k + 1][2]) = <<>>
         /\ i' = k
         /\ tips' = Pop(tips, k)
    /\ it' = it + 1
    /\ pc' = "raised"
    /\ UNCHANGED <<cfg, grid, history>>

(* Variant of TipDies that omits tips.pop(i) at line 94. *)
TipDies_NoPop ==
    /\ pc = "loop"
    /\ LoopCond(cfg, it)
    /\ tips # <<>>
    /\ \E k \in 0..(Len(tips) - 1) :
         /\ Candidates(cfg, grid, tips[k + 1][1], tips[k + 1][2]) = <<>>
         /\ i' = k
    /\ it' = it + 1
    /\ UNCHANGED <<cfg, grid, tips, history, pc>>

(***************************************************************************)
(* Lines 60-95: the selected tip has no candidate and is removed.          *)
(***************************************************************************)
TipDies ==
    /\ pc = "loop"
    /\ LoopCond(cfg, it)
    /\ tips # <<>>
    /\ \E k \in 0..(Len(tips) - 1) :
         /\ Candidates(cfg, grid, tips[k + 1][1], tips[k + 1][2]) = <<>>
         /\ i' = k
         /\ tips' = Pop(tips, k)
    /\ it' = it + 1
    /\ UNCHANGED <<cfg, grid, history, pc>>

(* Variant of Grow in which an advancing tip vacates the cell it leaves    *)
(* (the tip moves instead of growing).                                     *)
Grow_VacatesOldCell ==
    /\ pc = "loop"
    /\ LoopCond(cfg, it)
    /\ tips # <<>>
    /\ \E k \in 0..(Len(tips) - 1) :
         LET cands == Candidates(cfg, grid, tips[k + 1][1], tips[k + 1][2])
         IN  /\ cands # <<>>
             /\ \E p \in 1..Len(cands), ub \in Draws, ud \in Draws :
                  LET cell == cands[p]
                      old == tips[k + 1]
                      ts == BranchOrAdvance(cfg, tips, k, cell, ub)
                      g1 == IF Len(ts) = Len(tips)
                            THEN [grid EXCEPT ![<<old[2], old[1]>>] = 0]
                            ELSE grid
                  IN  /\ grid' = Mark(g1, cell)
                      /\ history' = Append(history, cell)
                      /\ IF DeathFires(cfg, ts, ud)
                         THEN \E di \in 0..(Len(ts) - 1) : tips' = Pop(ts, di)
                         ELSE tips' = ts
             /\ i' = k
    /\ it' = it + 1
    /\ UNCHANGED <<cfg, pc>>

(***************************************************************************)
(* Lines 60-113: a candidate is chosen and marked; branch or advance; then *)
(* the death draw.                                                          *)
(***************************************************************************)
Grow ==
    /\ pc = "loop"
    /\ LoopCond(cfg, it)
    /\ tips # <<>>
    /\ \E k \in 0..(Len(tips) - 1) :
         LET cands == Candidates(cfg, grid, tips[k + 1][1], tips[k + 1][2])
         IN  /\ cands # <<>>
             /\ \E p \in 1..Len(cands), ub \in Draws, ud \in Draws :
                  LET cell == cands[p]
                      ts == BranchOrAdvance(cfg, tips, k, cell, ub)
                  IN  /\ grid' = Mark(grid, cell)
                      /\ history' = Append(history, cell)
                      /\ IF DeathFires(cfg, ts, ud)
                         THEN \E di \in 0..(Len(ts) - 1) : tips' = Pop(ts, di)
                         ELSE tips' = ts
             /\ i' = k
    /\ it' = it + 1
    /\ UNCHANGED <<cfg, pc>>

(***************************************************************************)
(* Line 115: range(n_steps) is exhausted, return the history.              *)
(***************************************************************************)
Return ==
    /\ pc = "loop"
    /\ ~LoopCond(cfg, it)
    /\ pc' = "done"
    /\ UNCHANGED <<cfg, grid, tips, history, it, i>>

Next == Break \/ TipDies \/ Grow \/ Return

Spec == Init /\ [][Next]_vars

(***************************************************************************)
(* The call is a sequential program: whenever a step is possible, a step   *)
(* is taken.                                                               *)
(***************************************************************************)
FairSpec == Spec /\ WF_vars(Next)

(***************************************************************************)
(* Helpers of the properties.                                              *)
(***************************************************************************)
TipCandidates(k) == Candidates(cfg, grid, tips[k][1], tips[k][2])

(* Some in-margin neighbour of tip k is already occupied. *)
HasOccupiedNeighbour(k) ==
    \E m \in 1..Len(moves) :
        LET nx == tips[k][1] + moves[m][1]
            ny == tips[k][2] + moves[m][2]
        IN  in_bounds(cfg, nx, ny) /\ grid[<<ny, nx>>] = 1

(***************************************************************************)
(* C1: every coordinate appears at most once in History: the cell marked   *)
(* in a step was unoccupied when it was chosen.                            *)
(***************************************************************************)
C1_NoDuplicates ==
    \A a, b \in 1..Len(history) : history[a] = history[b] => a = b

(* A run of three cells whose tip has an occupied in-margin neighbour. *)
C1_Witness ==
    /\ Len(history) >= 3
    /\ \E k \in 1..Len(tips) : HasOccupiedNeighbour(k) /\ TipCandidates(k) # <<>>

(***************************************************************************)
(* C2: with n_steps >= 0, History never holds more than n_steps + 1        *)
(* entries, in any state and in the returned value.                        *)
(***************************************************************************)
C2_HistoryBounded ==
    cfg.n_steps >= 0 => Len(history) <= cfg.n_steps + 1

(* A finished run that grew in every one of its iterations. *)
C2_Witness ==
    /\ pc = "done"
    /\ cfg.n_steps >= 2
    /\ Len(history) = cfg.n_steps + 1

(***************************************************************************)
(* C3: with max_tips >= 1, the tip list never holds more than max_tips     *)
(* entries.                                                                *)
(***************************************************************************)
C3_TipsBounded ==
    cfg.max_tips >= 1 => Len(tips) <= cfg.max_tips

(* The cap was met: branching always fires, no tip dies, yet after two     *)
(* grown cells the list holds max_tips = 2 tips.                           *)
C3_Witness ==
    /\ cfg.max_tips = 2
    /\ cfg.branch_rate = 2
    /\ cfg.death_rate = 0
    /\ Len(history) = 3
    /\ Len(tips) = 2

(***************************************************************************)
(* C4: grid_size = 5 and min_dist = 2.                                     *)
(***************************************************************************)
Scenario1 == cfg.grid_size = 5 /\ cfg.min_dist = 2

(* C4 as stated: the seed tip has no candidate and the returned History is *)
(* exactly [(2, 2)], the grid centre.                                      *)
C4_Original ==
    (Scenario1 /\ pc = "done") => history = << <<2, 2>> >>

(* C4 amended: the seed is (2, 4); in every state of the scenario the seed *)
(* tip has no candidate and History is [(2, 4)]; once an iteration has run *)
(* the tip list is empty.                                                  *)
C4_SeedOnly ==
    Scenario1 =>
        /\ Candidates(cfg, grid, SeedX(cfg), SeedY(cfg)) = <<>>
        /\ history = << <<2, 4>> >>
        /\ tips = IF it = 0 THEN << <<2, 4>> >> ELSE <<>>
        /\ it <= 1

(* The scenario's run has ended after its tip died in the first step. *)
C4_Witness ==
    /\ Scenario1
    /\ pc = "done"
    /\ it = 1
    /\ tips = <<>>
    /\ cfg.n_steps > 1

(***************************************************************************)
(* C5: a configuration outside the documented constraints.                 *)
(***************************************************************************)
BadConfig(c) ==
    \/ c.grid_size <= 2 * c.min_dist + 2
    \/ c.n_steps < 0
    \/ c.temperature <= 0
    \/ c.crowding_max < 0

(* C5 as stated: such a configuration ends in an error before any step     *)
(* runs: no iteration is executed and no History is returned.              *)
C5_ConfigErrorReported ==
    BadConfig(cfg) => (it = 0 /\ pc # "done")

(***************************************************************************)
(* C6: branch_rate = 1.0, max_tips = 2, n_steps = 1, and the single step   *)
(* grew a cell.                                                            *)
(***************************************************************************)
Scenario4 == cfg.branch_rate = 2 /\ cfg.max_tips = 2 /\ cfg.n_steps = 1

Scenario4Grown == Scenario4 /\ pc = "done" /\ Len(history) = 2

(* C6 as stated: whatever death_rate is, the run ends with exactly two     *)
(* tips, the seed and the new cell.                                        *)
C6_Original ==
    Scenario4Grown => tips = <<SeedCell(cfg), history[2]>>

(* C6 amended: the run ends with the two tips (seed, new cell) when the    *)
(* death draw of the step does not fire, which is certain with             *)
(* death_rate = 0; when it fires (certain with death_rate = 1.0) exactly   *)
(* one of the two is left.                                                 *)
C6_TwoTipsUnlessDeath ==
    Scenario4Grown =>
        LET both == <<SeedCell(cfg), history[2]>>
            one  == {<<SeedCell(cfg)>>, <<history[2]>>}
        IN  /\ cfg.death_rate = 0 => tips = both
            /\ cfg.death_rate = 2 => tips \in one
            /\ tips \in one \cup {both}

(* The step branched and the death draw, though possible, did not fire. *)
C6_Witness ==
    /\ Scenario4Grown
    /\ cfg.death_rate = 1
    /\ tips = <<SeedCell(cfg), history[2]>>

(***************************************************************************)
(* C7: crowding_max = 8, branch_rate = 0, death_rate = 0, max_tips = 1,    *)
(* with a valid iteration budget.                                          *)
(***************************************************************************)
Scenario3 ==
    /\ cfg.crowding_max = 8
    /\ cfg.branch_rate = 0
    /\ cfg.death_rate = 0
    /\ cfg.max_tips = 1
    /\ cfg.n_steps >= 0
    /\ cfg.min_dist >= 1

Last(s) == s[Len(s)]

(* The neighbour (x, y) + moves[m] is inside the margin and unoccupied. *)
FreeNeighbour(x, y, m) ==
    LET nx == x + moves[m][1]
        ny == y + moves[m][2]
    IN  in_bounds(cfg, nx, ny) /\ grid[<<ny, nx>>] # 1

(* The crowding test rejects a free neighbour of the cell (x, y). *)
CrowdingRejects(x, y) ==
    \E m \in 1..Len(moves) :
        /\ FreeNeighbour(x, y, m)
        /\ too_crowded(cfg, grid, x + moves[m][1], y + moves[m][2])

(* The cell (x, y) has no unoccupied in-margin neighbour. *)
BoxedIn(x, y) == \A m \in 1..Len(moves) : ~FreeNeighbour(x, y, m)

(* C7 as stated: the crowding test never rejects a candidate, one tip      *)
(* exists in every state (read here as: never more than one, so that the   *)
(* removal of a boxed-in tip is not held against the claim), and the run   *)
(* ends with n_steps + 1 cells unless its tip had no unoccupied in-margin  *)
(* neighbour left.                                                         *)
C7_Original ==
    Scenario3 =>
        /\ \A k \in 1..Len(tips) : ~CrowdingRejects(tips[k][1], tips[k][2])
        /\ Len(tips) <= 1
        /\ pc = "done" =>
             \/ Len(history) = cfg.n_steps + 1
             \/ BoxedIn(Last(history)[1], Last(history)[2])

(* C7 amended: the crowding test never rejects when min_dist = 1 (a 3 x 3  *)
(* window); there is at most one tip, the last History cell, and it has    *)
(* grown at every iteration so far; the tip is removed only when it has no *)
(* admissible candidate, and the run ends with n_steps + 1 cells unless    *)
(* that happened.                                                          *)
C7_SingleTip ==
    Scenario3 =>
        LET last == Last(history)
            dead == Candidates(cfg, grid, last[1], last[2]) = <<>>
        IN  /\ cfg.min_dist = 1 =>
                 \A k \in 1..Len(tips) : ~CrowdingRejects(tips[k][1], tips[k][2])
            /\ tips \in {<<>>, <<last>>}
            /\ tips # <<>> => Len(history) = it + 1
            /\ tips = <<>> => dead /\ Len(history) = it
            /\ pc = "done" => (Len(history) = cfg.n_steps + 1 \/ dead)

(* With min_dist = 2 the 5 x 5 window of a free neighbour of the tip holds *)
(* more than 8 occupied cells: the crowding test rejects it.               *)
C7_Witness ==
    /\ Scenario3
    /\ cfg.min_dist = 2
    /\ tips # <<>>
    /\ CrowdingRejects(tips[1][1], tips[1][2])

(* With min_dist = 1 a free neighbour of the tip has all 8 cells around it *)
(* occupied and is still admitted.                                         *)
C7_FullWindow ==
    /\ Scenario3
    /\ cfg.min_dist = 1
    /\ tips # <<>>
    /\ \E m \in 1..Len(moves) :
         /\ FreeNeighbour(tips[1][1], tips[1][2], m)
         /\ Occ(cfg, grid, tips[1][1] + moves[m][1], tips[1][2] + moves[m][2]) = 8

(***************************************************************************)
(* C8: early termination once every tip is stuck.                          *)
(***************************************************************************)
(* No tip has an admissible candidate.  Occupancy only grows, so a tip     *)
(* without candidates never regains one.                                   *)
AllStuck == \A k \in 1..Len(tips) : TipCandidates(k) = <<>>

(* C8 as stated: a run (of a configuration within the documented           *)
(* constraints, with an iteration to spend) in which every tip got stuck   *)
(* ends with an empty tip list before n_steps iterations were executed.    *)
C8_Original ==
    (~BadConfig(cfg) /\ cfg.n_steps >= 1 /\ pc = "done" /\ AllStuck) =>
        (tips = <<>> /\ it < cfg.n_steps)

(* C8 amended: once every tip is stuck no cell is added to the grid or to  *)
(* History and every iteration removes exactly one tip; the run stops      *)
(* early, by the break on the empty tip list, only if the list is emptied  *)
(* with an iteration of the budget left, and otherwise ends after n_steps  *)
(* iterations, possibly with stuck tips still in the list.                 *)
C8_StuckRunsDown ==
    [][AllStuck =>
        /\ history' = history
        /\ grid' = grid
        /\ AllStuck'
        /\ it' = it + 1 => Len(tips') = Len(tips) - 1
        /\ pc' = "done" =>
             \/ tips' = <<>> /\ it' = it /\ it < cfg.n_steps
             \/ it' = it /\ it >= cfg.n_steps]_vars

(* The budget ran out first: the run has ended after n_steps iterations    *)
(* with two or more stuck tips still in the list.                          *)
C8_Witness ==
    /\ pc = "done"
    /\ it = cfg.n_steps
    /\ Len(tips) >= 2
    /\ AllStuck

(***************************************************************************)
(* C10: the loop finishes; it stops at the first iteration that finds the  *)
(* tip list empty, and otherwise after exactly n_steps iterations.         *)
(***************************************************************************)
C10_Terminates ==
    /\ <>(pc = "done")
    /\ [](it <= Max2(cfg.n_steps, 0))
    /\ [](pc = "done" => (it = Max2(cfg.n_steps, 0) \/ tips = <<>>))
    /\ [][(pc = "loop" /\ tips = <<>> /\ it < cfg.n_steps)
            => (pc' = "done" /\ it' = it /\ history' = history)]_vars
    /\ [][pc = "done" => UNCHANGED vars]_vars

(* A run that stopped early on an empty tip list after growing. *)
C10_Witness ==
    /\ pc = "done"
    /\ tips = <<>>
    /\ it < cfg.n_steps
    /\ Len(history) >= 3

(***************************************************************************)
(* C11: with n_steps = 0 no growth step runs: in every state, and at the   *)
(* return, History is [seed], the grid holds the seed cell only and the    *)
(* tip list is [seed].                                                     *)
(***************************************************************************)
C11_ZeroSteps ==
    cfg.n_steps = 0 =>
        /\ it = 0
        /\ history = <<SeedCell(cfg)>>
        /\ tips = <<SeedCell(cfg)>>
        /\ \A rc \in DOMAIN grid :
             grid[rc] = IF rc = <<SeedY(cfg), SeedX(cfg)>> THEN 1 ELSE 0

(* The call with n_steps = 0 has returned, on a grid where the seed tip    *)
(* would have had a candidate.                                             *)
C11_Witness ==
    /\ cfg.n_steps = 0
    /\ pc = "done"
    /\ TipCandidates(1) # <<>>

(***************************************************************************)
(* C12: monotonic occupancy: a cell occupied before a step is occupied     *)
(* after it.                                                               *)
(***************************************************************************)
C12_MonotonicOccupancy ==
    [][/\ DOMAIN grid' = DOMAIN grid
       /\ \A rc \in DOMAIN grid : grid[rc] = 1 => grid'[rc] = 1]_vars

(* Three cells are occupied, the seed still among them, and the tip has    *)
(* advanced away from it.                                                  *)
C12_Witness ==
    /\ Len(history) >= 3
    /\ grid[<<SeedY(cfg), SeedX(cfg)>>] = 1
    /\ \A k \in 1..Len(tips) : tips[k] # SeedCell(cfg)

(***************************************************************************)
(* C13: every tip is the coordinate of an occupied grid cell.              *)
(***************************************************************************)
C13_TipsOccupied ==
    \A k \in 1..Len(tips) :
        /\ <<tips[k][2], tips[k][1]>> \in DOMAIN grid
        /\ grid[<<tips[k][2], tips[k][1]>>] = 1

(* Two tips, one appended by a branch and one written by an advance, off   *)
(* the diagonal of the grid.                                               *)
C13_Witness ==
    /\ Len(tips) >= 2
    /\ Len(history) >= 3
    /\ \A k \in 1..Len(tips) : tips[k] # SeedCell(cfg)
    /\ \E k \in 1..Len(tips) : tips[k][1] # tips[k][2]

(***************************************************************************)
(* Steps of the loop as seen between two states.                           *)
(***************************************************************************)
(* The step is a loop iteration that went past the check of line 57. *)
IterStep == it' = it + 1

(* The candidates of the tip selected in the step, in the state before it. *)
SelCands ==
    IF i' \in 0..(Len(tips) - 1)
    THEN Candidates(cfg, grid, tips[i' + 1][1], tips[i' + 1][2])
    ELSE <<>>

InSeq(x, s) == \E j \in 1..Len(s) : s[j] = x

(***************************************************************************)
(* C14: the sampler runs only on a non-empty candidate list: a step that   *)
(* appends a sampled cell had at least one candidate for the selected tip  *)
(* and appends one of them; a step whose tip has no candidate skips the    *)
(* sampler and the loop goes on.                                           *)
(***************************************************************************)
C14_SamplerNeverEmpty ==
    [][IterStep =>
        LET sc == SelCands
        IN  /\ i' \in 0..(Len(tips) - 1)
            /\ history' # history =>
                 /\ sc # <<>>
                 /\ Len(history') = Len(history) + 1
                 /\ InSeq(Last(history'), sc)
            /\ sc = <<>> => (history' = history /\ pc' = "loop")]_vars

(* An iteration skipped the sampler (its tip had no candidate) in a run    *)
(* that sampled before and still has a tip.                                *)
C14_Witness ==
    /\ pc = "loop"
    /\ Len(history) >= 2
    /\ it > Len(history) - 1
    /\ tips # <<>>

(***************************************************************************)
(* C15: frame of a step.  A successful iteration changes the grid at one   *)
(* cell, from 0 to 1, and appends that cell to History; an iteration whose *)
(* selected tip has no candidate leaves grid and History alone and removes *)
(* exactly tip i; the steps that end the run change none of the three.     *)
(***************************************************************************)
C15_StepFrame ==
    [][IF IterStep
       THEN LET sc == SelCands
            IN  IF sc = <<>>
                THEN /\ grid' = grid
                     /\ history' = history
                     /\ tips' = [j \in 1..(Len(tips) - 1) |->
                                   IF j <= i' THEN tips[j] ELSE tips[j + 1]]
                ELSE LET cell == Last(history')
                         rc == <<cell[2], cell[1]>>
                     IN  /\ InSeq(cell, sc)
                         /\ grid[rc] = 0
                         /\ grid' = [grid EXCEPT ![rc] = 1]
                         /\ history' = Append(history, cell)
       ELSE grid' = grid /\ history' = history /\ tips' = tips]_vars

(* A tip other than the last of the list was removed for lack of           *)
(* candidates, after two cells had grown.                                  *)
C15_Witness ==
    /\ pc = "loop"
    /\ Len(history) = 3
    /\ it = 3
    /\ i >= 0
    /\ i < Len(tips)

(***************************************************************************)
(* C16: branch versus advance.  In a successful step with chosen cell and  *)
(* selected tip i, either the branch draw succeeds with len(tips) below    *)
(* max_tips and the cell is appended while every tip keeps its position,   *)
(* or the list keeps its length and tip i alone is set to the cell.  The   *)
(* death draw of the same step may then remove one tip of the result.      *)
(***************************************************************************)
C16_BranchOrAdvance ==
    [][history' # history =>
        LET cell == Last(history')
            branched == Append(tips, cell)
            advanced == [j \in 1..Len(tips) |->
                           IF j = i' + 1 THEN cell ELSE tips[j]]
            mayBranch ==
                (\E u \in Draws : u < cfg.branch_rate) /\ Len(tips) < cfg.max_tips
            mayAdvance ==
                (\E u \in Draws : ~(u < cfg.branch_rate)) \/ Len(tips) >= cfg.max_tips
            AfterDeath(ts) ==
                \/ /\ tips' = ts
                   /\ (\E u \in Draws : ~(u < cfg.death_rate)) \/ Len(ts) <= 1
                \/ /\ \E u \in Draws : u < cfg.death_rate
                   /\ Len(ts) > 1
                   /\ Len(tips') = Len(ts) - 1
                   /\ \E di \in 1..Len(ts) :
                        tips' = [j \in 1..(Len(ts) - 1) |->
                                   IF j < di THEN ts[j] ELSE ts[j + 1]]
        IN  \/ mayBranch /\ AfterDeath(branched)
            \/ mayAdvance /\ AfterDeath(advanced)]_vars

(* Without deaths, one step branched (tip 1 kept the seed position) and    *)
(* one advanced the new tip.                                               *)
C16_Witness ==
    /\ cfg.death_rate = 0
    /\ cfg.branch_rate = 1
    /\ Len(history) = 3
    /\ Len(tips) = 2
    /\ tips[1] = SeedCell(cfg)
    /\ tips[2] = history[3]

(***************************************************************************)
(* C17: random death never empties the tip list.  A step that grows a cell *)
(* leaves at least one tip and removes at most one; the list becomes empty *)
(* only in a step that removes its single tip for lack of candidates.      *)
(***************************************************************************)
C17_DeathKeepsATip ==
    [][/\ history' # history =>
            /\ Len(tips') >= 1
            /\ Len(tips') >= Len(tips) - 1
       /\ (tips # <<>> /\ tips' = <<>>) =>
            /\ history' = history
            /\ Len(tips) = 1
            /\ SelCands = <<>>]_vars

(* Branching and death both certain: after two grown cells a death has     *)
(* fired in each step and one tip is left.                                 *)
C17_Witness ==
    /\ cfg.death_rate = 2
    /\ cfg.branch_rate = 2
    /\ cfg.max_tips >= 2
    /\ Len(history) = 3
    /\ Len(tips) = 1

(***************************************************************************)
(* C18: candidate admission.  For every tip and every offset: if the       *)
(* neighbour passes the bounds check, the cell and its whole               *)
(* (2 * min_dist + 1)-square window lie inside the grid; and the neighbour *)
(* is a candidate exactly if it is strictly inside the margin, unoccupied, *)
(* and its window holds at most crowding_max occupied cells.               *)
(***************************************************************************)
C18_CandidateAdmission ==
    \A k \in 1..Len(tips) :
        \A m \in 1..Len(moves) :
            LET nx == tips[k][1] + moves[m][1]
                ny == tips[k][2] + moves[m][2]
                d == cfg.min_dist
                G == cfg.grid_size
                inside == d < nx /\ nx < G - d /\ d < ny /\ ny < G - d
                rows == (ny - d) .. (ny + d)
                cols == (nx - d) .. (nx + d)
            IN  /\ in_bounds(cfg, nx, ny) =>
                     /\ 0 <= nx - d /\ nx + d <= G - 1
                     /\ 0 <= ny - d /\ ny + d <= G - 1
                     /\ (rows \X cols) \subseteq DOMAIN grid
                /\ InSeq(<<nx, ny>>, TipCandidates(k)) <=>
                     /\ inside
                     /\ grid[<<ny, nx>>] = 0
                     /\ Cardinality({rc \in rows \X cols : grid[rc] = 1})
                          <= cfg.crowding_max

(* An admitted candidate whose window reaches the last row or column of    *)
(* the grid, next to a tip that also has an occupied in-margin neighbour.  *)
C18_Witness ==
    \E k \in 1..Len(tips) :
        /\ HasOccupiedNeighbour(k)
        /\ \E j \in 1..Len(TipCandidates(k)) :
             LET c == TipCandidates(k)[j]
             IN  \/ c[1] + cfg.min_dist = cfg.grid_size - 1
                 \/ c[2] + cfg.min_dist = cfg.grid_size - 1

(***************************************************************************)
(* C19: the cells of History are exactly the occupied cells of the grid,   *)
(* History starts with the seed cell, and History is append-only: each     *)
(* state's History is a prefix of the next state's.                        *)
(***************************************************************************)
C19_HistoryIsOccupancy ==
    /\ [](/\ history[1] = SeedCell(cfg)
          /\ {<<history[j][2], history[j][1]>> : j \in 1..Len(history)}
               = {rc \in DOMAIN grid : grid[rc] = 1})
    /\ [][/\ Len(history') >= Len(history)
          /\ \A j \in 1..Len(history) : history'[j] = history[j]]_vars

(* A finished run that occupied four cells or more. *)
C19_Witness ==
    /\ pc = "done"
    /\ Len(history) >= 4
    /\ Cardinality({rc \in DOMAIN grid : grid[rc] = 1}) = Len(history)

(***************************************************************************)
(* C20: connected growth: every History entry but the seed is at Chebyshev *)
(* distance exactly 1 from some earlier entry.                             *)
(***************************************************************************)
Abs(a) == IF a < 0 THEN -a ELSE a

Chebyshev(p, q) == Max2(Abs(p[1] - q[1]), Abs(p[2] - q[2]))

C20_ConnectedGrowth ==
    \A j \in 2..Len(history) :
        \E e \in 1..(j - 1) : Chebyshev(history[j], history[e]) = 1

(* After a branch the older tip grew: the last cell is not adjacent to the *)
(* cell occupied just before it.                                           *)
C20_Witness ==
    /\ Len(history) >= 3
    /\ Chebyshev(Last(history), history[Len(history) - 1]) > 1

====
